---- MODULE Spec2Model ----
(***************************************************************************)
(* State-machine model of fem/fmsconvert.cpp: FmsMeshToMesh, the           *)
(* conversion of an FMS mesh (components, parts, entity batches, tags and  *)
(* a coordinate field) into an mfem::Mesh with high-order nodes, and its   *)
(* wrapper FmsDataCollectionToDataCollection.                              *)
(***************************************************************************)
EXTENDS Integers, Sequences, FiniteSets, TLC

(***************************************************************************)
(* Bounds of the model.                                                    *)
(***************************************************************************)
MaxOrder == 3
MaxLead == 1

(***************************************************************************)
(* FMS entity types and their tables.                                      *)
(***************************************************************************)
FMS_VERTEX == 0
FMS_EDGE == 1
FMS_TRIANGLE == 2
FMS_QUADRILATERAL == 3
FMS_TETRAHEDRON == 4
FMS_HEXAHEDRON == 5
FMS_NUM_ENTITY_TYPES == 6
INT_MAX == 2147483647
NULL == -1

EntityTypes == FMS_VERTEX .. (FMS_NUM_ENTITY_TYPES - 1)

FmsEntityDim(et) == <<0, 1, 2, 2, 3, 3>>[et + 1]

FmsEntityNumVerts(et) == <<1, 2, 3, 4, 4, 8>>[et + 1]

(***************************************************************************)
(* Small helpers on sequences and sets.                                    *)
(***************************************************************************)
Range(s) == {s[i] : i \in DOMAIN s}

Reverse(s) == [i \in 1 .. Len(s) |-> s[Len(s) + 1 - i]]

SetMin(S) == CHOOSE x \in S : \A y \in S : x <= y

SetMax(S) == CHOOSE x \in S : \A y \in S : y <= x

RECURSIVE SortedSeq(_)
SortedSeq(S) ==
  IF S = {} THEN <<>> ELSE <<SetMin(S)>> \o SortedSeq(S \ {SetMin(S)})

RECURSIVE SumSeq(_)
SumSeq(s) == IF s = <<>> THEN 0 ELSE Head(s) + SumSeq(Tail(s))

(***************************************************************************)
(* The source mesh.  A batch is what FmsComponentGetPart returns for one   *)
(* (part, entity type): the id array (has_ids FALSE when it is NULL), its  *)
(* integer type, the orientation array (ori TRUE when it is not NULL) and  *)
(* the domain whose entities the ids name.  FmsDomainGetEntitiesVerts      *)
(* resolves entity k of the domain to its vertex tuple dom[k+1].           *)
(***************************************************************************)
Batch(dom) ==
  [has_ids |-> FALSE, id_type |-> "FMS_INT32", ids |-> <<>>, ori |-> FALSE,
   dom |-> dom]

NumEnts(b) == IF b.has_ids THEN Len(b.ids) ELSE Len(b.dom)

Verts(n) == [i \in 1 .. n |-> <<i - 1>>]

Part(nv, edges, tris, quads, tets, hexes) ==
  [et \in EntityTypes |->
     CASE et = FMS_VERTEX -> Batch(Verts(nv))
       [] et = FMS_EDGE -> Batch(edges)
       [] et = FMS_TRIANGLE -> Batch(tris)
       [] et = FMS_QUADRILATERAL -> Batch(quads)
       [] et = FMS_TETRAHEDRON -> Batch(tets)
       [] OTHER -> Batch(hexes)]

Bases == {"Q2", "T2P", "T2Z", "H1", "TET2", "E1"}

BaseDim(base) ==
  CASE base = "Q2" -> 2
    [] base = "T2P" -> 2
    [] base = "T2Z" -> 2
    [] base = "H1" -> 3
    [] base = "TET2" -> 3
    [] OTHER -> 1

\* The parts of the main component of each base mesh.
BaseParts(base) ==
  CASE base = "Q2" ->
         <<Part(6, <<<<0, 1>>, <<1, 2>>, <<3, 4>>, <<4, 5>>, <<0, 3>>,
                     <<1, 4>>, <<2, 5>>>>, <<>>,
                 <<<<0, 1, 4, 3>>, <<1, 2, 5, 4>>>>, <<>>, <<>>)>>
    [] base = "T2P" ->
         <<Part(4, <<<<0, 1>>, <<1, 2>>, <<2, 0>>, <<1, 3>>, <<3, 2>>>>,
                 <<<<0, 1, 2>>, <<1, 3, 2>>>>, <<>>, <<>>, <<>>),
           Part(3, <<<<0, 1>>, <<1, 2>>, <<2, 0>>>>, <<<<0, 1, 2>>>>,
                 <<>>, <<>>, <<>>)>>
    [] base = "T2Z" ->
         <<Part(4, <<<<0, 1>>, <<1, 2>>, <<2, 0>>>>, <<<<0, 1, 2>>>>,
                 <<>>, <<>>, <<>>),
           Part(0, <<<<1, 3>>, <<3, 2>>>>, <<<<1, 3, 2>>>>, <<>>, <<>>,
                 <<>>)>>
    [] base = "H1" ->
         <<Part(8, <<<<0, 1>>, <<1, 2>>, <<3, 2>>, <<0, 3>>, <<4, 5>>,
                     <<5, 6>>, <<7, 6>>, <<4, 7>>, <<0, 4>>, <<1, 5>>,
                     <<2, 6>>, <<3, 7>>>>, <<>>,
                 <<<<3, 2, 1, 0>>, <<0, 1, 5, 4>>, <<1, 2, 6, 5>>,
                   <<2, 3, 7, 6>>, <<3, 0, 4, 7>>, <<4, 5, 6, 7>>>>,
                 <<>>, <<<<0, 1, 2, 3, 4, 5, 6, 7>>>>)>>
    [] base = "TET2" ->
         <<Part(5, <<<<0, 1>>, <<0, 2>>, <<0, 3>>, <<1, 2>>, <<1, 3>>,
                     <<2, 3>>, <<1, 4>>, <<2, 4>>, <<3, 4>>>>,
                 <<<<1, 2, 3>>, <<0, 3, 2>>, <<0, 1, 3>>, <<0, 2, 1>>,
                   <<2, 3, 4>>, <<1, 4, 3>>, <<1, 2, 4>>>>, <<>>,
                 <<<<0, 1, 2, 3>>, <<1, 2, 3, 4>>>>, <<>>)>>
    [] OTHER ->
         <<Part(3, <<<<0, 1>>, <<1, 2>>>>, <<>>, <<>>, <<>>, <<>>)>>

\* The single part of the boundary component of each base mesh.
BaseBdrParts(base) ==
  CASE base = "Q2" ->
         <<Part(6, <<<<0, 1>>, <<1, 2>>, <<2, 5>>>>, <<>>, <<>>, <<>>, <<>>)>>
    [] base = "T2P" ->
         <<Part(4, <<<<0, 1>>, <<1, 3>>>>, <<>>, <<>>, <<>>, <<>>)>>
    [] base = "T2Z" ->
         <<Part(4, <<<<0, 1>>, <<1, 3>>>>, <<>>, <<>>, <<>>, <<>>)>>
    [] base = "H1" ->
         <<Part(8, <<>>, <<>>, <<<<3, 2, 1, 0>>, <<4, 5, 6, 7>>>>, <<>>, <<>>)>>
    [] base = "TET2" ->
         <<Part(5, <<>>, <<<<0, 2, 1>>, <<2, 3, 4>>>>, <<>>, <<>>, <<>>)>>
    [] OTHER ->
         <<Part(3, <<>>, <<>>, <<>>, <<>>, <<>>)>>

(***************************************************************************)
(* Variations of the source mesh.  Every source mesh of the model is a     *)
(* base mesh with at most two of these applied.                            *)
(***************************************************************************)
ModSeq ==
  <<"none", "top_ids", "top_idtype_bad", "top_ori", "vert_ori",
    "vert_idtype_bad", "edge_ori", "edge_idtype_bad", "edge_ids",
    "edges_reversed", "face_ori", "faces_rotated", "faces_flipped",
    "orphan_edge", "orphan_face", "near_face", "near_face_far",
    "not_double", "not_fixed", "discont", "bad_basis", "ndofs_mismatch",
    "no_coords", "no_bdr", "tag_other", "tag_main", "tag_main_u8",
    "tag_main_bad", "tag_bdr", "tag_bdr_bad", "bdr_ori", "bdr_idtype_bad",
    "bdr_ids", "bdr_vert_ori">>

ModSet == Range(ModSeq)

\* Variations under which both field layouts are explored.
LayoutMods ==
  {"none", "top_ids", "edge_ids", "edges_reversed", "faces_rotated",
   "faces_flipped", "near_face", "tag_main", "tag_bdr", "no_bdr",
   "edge_ori", "bdr_vert_ori"}

Layouts == {"FMS_BY_VDIM", "FMS_BY_NODES"}

Identity(n) == [i \in 1 .. n |-> i - 1]

Rotate(t) == [i \in 1 .. Len(t) |-> t[(i % Len(t)) + 1]]

\* A pair of vertices that is no edge of the base mesh.
OrphanEdge(base) ==
  CASE base = "Q2" -> <<0, 5>>
    [] base = "T2Z" -> <<0, 3>>
    [] base = "H1" -> <<0, 6>>
    [] base = "TET2" -> <<0, 4>>
    [] OTHER -> <<0, 1>>

\* A vertex tuple that is no face of the base mesh.
OrphanFace(base, et) ==
  IF et = FMS_TRIANGLE THEN <<0, 1, 4>> ELSE <<0, 2, 5, 7>>

MapDom(dom, rev, rot) ==
  [i \in DOMAIN dom |->
     IF rev THEN Reverse(IF rot THEN Rotate(dom[i]) ELSE dom[i])
     ELSE IF rot THEN Rotate(dom[i]) ELSE dom[i]]

ReplaceAt(dom, i, c, t) == IF c /\ i \in DOMAIN dom THEN [dom EXCEPT ![i] = t]
                           ELSE dom

IsFace(dim, et) == dim = 3 /\ et \in {FMS_TRIANGLE, FMS_QUADRILATERAL}

ModDom(base, dim, et, b, mods) ==
  ReplaceAt(
    ReplaceAt(
      ReplaceAt(
        ReplaceAt(
          MapDom(b.dom,
                 \/ et = FMS_EDGE /\ "edges_reversed" \in mods
                 \/ IsFace(dim, et) /\ "faces_flipped" \in mods,
                 IsFace(dim, et) /\ "faces_rotated" \in mods),
          1, et = FMS_EDGE /\ dim >= 2 /\ "orphan_edge" \in mods,
          OrphanEdge(base)),
        1, IsFace(dim, et) /\ "orphan_face" \in mods, OrphanFace(base, et)),
      2, base = "H1" /\ et = FMS_QUADRILATERAL /\ "near_face" \in mods,
      <<0, 1, 6, 4>>),
    1, base = "H1" /\ et = FMS_QUADRILATERAL /\ "near_face_far" \in mods,
    <<7, 2, 1, 0>>)

\* The batch of entity type et of a part of the main component.
ModBatch(base, dim, et, b, mods) ==
  LET top == FmsEntityDim(et) = dim
      n == Len(b.dom)
      isFace == IsFace(dim, et)
      bad == \/ top /\ "top_idtype_bad" \in mods
             \/ et = FMS_VERTEX /\ "vert_idtype_bad" \in mods
             \/ et = FMS_EDGE /\ "edge_idtype_bad" \in mods
      rev == \/ top /\ "top_ids" \in mods
             \/ et = FMS_EDGE /\ "edge_ids" \in mods
      ori == \/ top /\ "top_ori" \in mods
             \/ et = FMS_VERTEX /\ "vert_ori" \in mods
             \/ et = FMS_EDGE /\ "edge_ori" \in mods
             \/ isFace /\ "face_ori" \in mods
  IN  [has_ids |-> bad \/ rev,
       id_type |-> IF bad THEN "FMS_INT64"
                   ELSE IF rev THEN "FMS_UINT32" ELSE "FMS_INT32",
       ids |-> IF rev THEN Reverse(Identity(n))
               ELSE IF bad THEN Identity(n) ELSE <<>>,
       ori |-> ori,
       dom |-> ModDom(base, dim, et, b, mods)]

\* The batch of entity type et of a part of the boundary component.
ModBdrBatch(dim, et, b, mods) ==
  LET top == FmsEntityDim(et) = dim - 1
      n == Len(b.dom)
      bad == top /\ "bdr_idtype_bad" \in mods
      rev == top /\ "bdr_ids" \in mods
      ori == \/ top /\ "bdr_ori" \in mods
             \/ et = FMS_VERTEX /\ "bdr_vert_ori" \in mods
  IN  [has_ids |-> bad \/ rev,
       id_type |-> IF bad THEN "FMS_INT64" ELSE "FMS_INT32",
       ids |-> IF rev THEN Reverse(Identity(n))
               ELSE IF bad THEN Identity(n) ELSE <<>>,
       ori |-> ori,
       dom |-> b.dom]

(***************************************************************************)
(* Interior DOFs per geometry of the H1 collection of order p.             *)
(***************************************************************************)
DofForGeometry(et, p) ==
  CASE et = FMS_VERTEX -> 1
    [] et = FMS_EDGE -> p - 1
    [] et = FMS_TRIANGLE -> ((p - 1) * (p - 2)) \div 2
    [] et = FMS_QUADRILATERAL -> (p - 1) * (p - 1)
    [] et = FMS_TETRAHEDRON -> ((p - 1) * (p - 2) * (p - 3)) \div 6
    [] OTHER -> (p - 1) * (p - 1) * (p - 1)

\* Number of entities of dimension dim(et) over all parts.
PartsEnts(parts, et) == SumSeq([i \in DOMAIN parts |-> NumEnts(parts[i][et])])

\* The number of DOFs the source field descriptor reports.
SourceNumDofs(parts, p) ==
  SumSeq([k \in 1 .. FMS_NUM_ENTITY_TYPES |->
             PartsEnts(parts, k - 1) * DofForGeometry(k - 1, p)])

TagVals(n, first) == [i \in 1 .. n |-> first + i]

(***************************************************************************)
(* The source mesh built from a base, a polynomial order, a field layout,  *)
(* the number of coordinate-less components declared first, and the        *)
(* variations applied.  Component, field and tag handles are 0-based       *)
(* indices, NULL when absent.                                              *)
(***************************************************************************)
BuildMesh(base, order, layout, lead, mods) ==
  LET dim == BaseDim(base)
      main_id == lead
      bdr_id == lead + 1
      trail_id == lead + 2
      parts == [i \in DOMAIN BaseParts(base) |->
                  [et \in EntityTypes |->
                     ModBatch(base, dim, et, BaseParts(base)[i][et], mods)]]
      bparts == [i \in DOMAIN BaseBdrParts(base) |->
                  [et \in EntityTypes |->
                     ModBdrBatch(dim, et, BaseBdrParts(base)[i][et], mods)]]
      topEts == {et \in EntityTypes : FmsEntityDim(et) = dim}
      bdrEts == {et \in EntityTypes : FmsEntityDim(et) = dim - 1}
      nMain == SumSeq([k \in 1 .. FMS_NUM_ENTITY_TYPES |->
                         IF (k - 1) \in topEts
                         THEN PartsEnts(parts, k - 1) ELSE 0])
      nBdr == SumSeq([k \in 1 .. FMS_NUM_ENTITY_TYPES |->
                         IF (k - 1) \in bdrEts
                         THEN PartsEnts(bparts, k - 1) ELSE 0])
      dummy == [coords |-> NULL, dim |-> dim, num_ents |-> 0, rel |-> <<>>,
                parts |-> <<>>]
      mainc == [coords |-> IF "no_coords" \in mods THEN NULL ELSE 0,
                dim |-> dim, num_ents |-> nMain,
                rel |-> IF "no_bdr" \in mods THEN <<trail_id>>
                        ELSE <<trail_id, bdr_id>>,
                parts |-> parts]
      bdrc == [coords |-> NULL, dim |-> dim - 1, num_ents |-> nBdr,
               rel |-> <<>>, parts |-> bparts]
      trailc == [coords |-> IF "no_coords" \in mods THEN NULL ELSE 1,
                 dim |-> dim, num_ents |-> 0, rel |-> <<>>, parts |-> <<>>]
      fmain == [space_dim |-> dim, layout |-> layout,
                data_type |-> IF "not_double" \in mods THEN "FMS_FLOAT"
                              ELSE "FMS_DOUBLE",
                fd_type |-> IF "not_fixed" \in mods THEN "FMS_VARIABLE_ORDER"
                            ELSE "FMS_FIXED_ORDER",
                field_type |-> IF "discont" \in mods THEN "FMS_DISCONTINUOUS"
                               ELSE "FMS_CONTINUOUS",
                basis_type |-> IF "bad_basis" \in mods
                               THEN "FMS_NODAL_GAUSS_OPEN"
                               ELSE "FMS_NODAL_GAUSS_CLOSED",
                order |-> order,
                num_dofs |-> SourceNumDofs(parts, order)
                             + (IF "ndofs_mismatch" \in mods THEN 1 ELSE 0),
                data0 |-> 100]
      ftrail == [space_dim |-> 1, layout |-> "FMS_BY_NODES",
                 data_type |-> "FMS_FLOAT", fd_type |-> "FMS_FIXED_ORDER",
                 field_type |-> "FMS_CONTINUOUS",
                 basis_type |-> "FMS_NODAL_GAUSS_CLOSED", order |-> 1,
                 num_dofs |-> 0, data0 |-> 5000]
      tagOther == IF "tag_other" \in mods
                  THEN <<[comp |-> trail_id, type |-> "FMS_INT32",
                          vals |-> TagVals(nMain + nBdr, 30)]>> ELSE <<>>
      tagMain == IF {"tag_main", "tag_main_u8", "tag_main_bad"} \cap mods # {}
                 THEN <<[comp |-> main_id,
                         type |-> IF "tag_main_bad" \in mods THEN "FMS_UINT64"
                                  ELSE IF "tag_main_u8" \in mods
                                       THEN "FMS_UINT8" ELSE "FMS_INT32",
                         vals |-> TagVals(nMain, 10)]>> ELSE <<>>
      tagBdr == IF {"tag_bdr", "tag_bdr_bad"} \cap mods # {}
                THEN <<[comp |-> bdr_id,
                        type |-> IF "tag_bdr_bad" \in mods THEN "FMS_UINT16"
                                 ELSE "FMS_UINT32",
                        vals |-> TagVals(nBdr, 20)]>> ELSE <<>>
  IN  [comps |-> [i \in 1 .. lead |-> dummy] \o <<mainc, bdrc, trailc>>,
       fields |-> <<fmain, ftrail>>,
       tags |-> tagOther \o tagBdr \o tagMain]

\* Value k of the data array of a field (k from 0): distinct recognisable
\* numbers stand for the doubles of the array.
CoordsData(f, k) == f.data0 + k + 1

(***************************************************************************)
(* The target mesh (mfem::Mesh).  state is "null" before the allocation,   *)
(* "live" after it and "deleted" once the mesh is destroyed.               *)
(***************************************************************************)
NullMesh ==
  [state |-> "null", Dim |-> 0, spaceDim |-> 0, elements |-> <<>>,
   boundary |-> <<>>, NumOfVertices |-> 0, edges |-> <<>>, faces |-> <<>>,
   order |-> 0, byvdim |-> FALSE]

NewMesh(Dim, spaceDim) == [NullMesh EXCEPT !.state = "live", !.Dim = Dim,
                                           !.spaceDim = spaceDim]

AddElement(m, geom, v, a) ==
  [m EXCEPT !.elements = Append(@, [geom |-> geom, attr |-> a, v |-> v])]

AddBdrElement(m, geom, v, a) ==
  [m EXCEPT !.boundary = Append(@, [geom |-> geom, attr |-> a, v |-> v])]

GetNE(m) == Len(m.elements)

GetNBE(m) == Len(m.boundary)

GetNEdges(m) == Len(m.edges)

GetNFaces(m) == Len(m.faces)

\* Local edges and faces of the reference elements.
GeomEdges(geom) ==
  CASE geom = "TRIANGLE" -> <<<<0, 1>>, <<1, 2>>, <<2, 0>>>>
    [] geom = "SQUARE" -> <<<<0, 1>>, <<1, 2>>, <<3, 2>>, <<0, 3>>>>
    [] geom = "TETRAHEDRON" ->
         <<<<0, 1>>, <<0, 2>>, <<0, 3>>, <<1, 2>>, <<1, 3>>, <<2, 3>>>>
    [] geom = "CUBE" ->
         <<<<0, 1>>, <<1, 2>>, <<3, 2>>, <<0, 3>>, <<4, 5>>, <<5, 6>>,
           <<7, 6>>, <<4, 7>>, <<0, 4>>, <<1, 5>>, <<2, 6>>, <<3, 7>>>>
    [] OTHER -> <<<<0, 1>>>>

GeomFaces(geom) ==
  CASE geom = "TETRAHEDRON" ->
         <<<<1, 2, 3>>, <<0, 3, 2>>, <<0, 1, 3>>, <<0, 2, 1>>>>
    [] geom = "CUBE" ->
         <<<<3, 2, 1, 0>>, <<0, 1, 5, 4>>, <<1, 2, 6, 5>>, <<2, 3, 7, 6>>,
           <<3, 0, 4, 7>>, <<4, 5, 6, 7>>>>
    [] OTHER -> <<>>

\* The vertices of local entity le (edge or face) of element el.
LocalVerts(el, le) == [i \in DOMAIN le |-> el.v[le[i] + 1]]

\* Edges are identified by their two vertices, faces by their three
\* smallest vertices.
EdgeKey(a, b) == IF a <= b THEN <<a, b>> ELSE <<b, a>>

FaceKey(t) ==
  LET s == SortedSeq(Range(t))
  IN  IF Len(s) >= 3 THEN <<s[1], s[2], s[3]>> ELSE s

RECURSIVE CollectEdges(_, _, _, _)
CollectEdges(els, e, k, acc) ==
  IF e > Len(els) THEN acc
  ELSE IF k > Len(GeomEdges(els[e].geom)) THEN CollectEdges(els, e + 1, 1, acc)
  ELSE LET lv == LocalVerts(els[e], GeomEdges(els[e].geom)[k])
           key == EdgeKey(lv[1], lv[2])
       IN  CollectEdges(els, e, k + 1,
                        IF key \in Range(acc) THEN acc ELSE Append(acc, key))

RECURSIVE CollectFaces(_, _, _, _)
CollectFaces(els, e, k, acc) ==
  IF e > Len(els) THEN acc
  ELSE IF k > Len(GeomFaces(els[e].geom)) THEN CollectFaces(els, e + 1, 1, acc)
  ELSE LET lv == LocalVerts(els[e], GeomFaces(els[e].geom)[k])
       IN  CollectFaces(els, e, k + 1,
                        IF \E i \in DOMAIN acc : FaceKey(acc[i]) = FaceKey(lv)
                        THEN acc ELSE Append(acc, lv))

\* Mesh::FinalizeTopology: the edges (and in 3D the faces) of the elements,
\* numbered as first met in element order; an edge runs from its smaller to
\* its larger vertex, a face keeps the order of the element that met it.
FinalizeTopology(m) ==
  [m EXCEPT !.edges = CollectEdges(m.elements, 1, 1, <<>>),
            !.faces = IF m.Dim >= 3
                      THEN CollectFaces(m.elements, 1, 1, <<>>) ELSE <<>>]

GetEdgeVertices(m, i) == m.edges[i + 1]

GetFaceVertices(m, i) == m.faces[i + 1]

SetCurvature(m, order, byvdim) == [m EXCEPT !.order = order, !.byvdim = byvdim]

(***************************************************************************)
(* The finite element space of the nodes: vertex DOFs first, then edge,    *)
(* face and element interior DOFs.                                         *)
(***************************************************************************)
GeomType(geom) ==
  CASE geom = "SEGMENT" -> FMS_EDGE
    [] geom = "TRIANGLE" -> FMS_TRIANGLE
    [] geom = "SQUARE" -> FMS_QUADRILATERAL
    [] geom = "TETRAHEDRON" -> FMS_TETRAHEDRON
    [] OTHER -> FMS_HEXAHEDRON

FaceDofs(m, i) ==
  DofForGeometry(IF Len(m.faces[i]) = 3 THEN FMS_TRIANGLE
                 ELSE FMS_QUADRILATERAL, m.order)

ElemDofs(m, i) == DofForGeometry(GeomType(m.elements[i].geom), m.order)

NVDofs(m) == m.NumOfVertices

NEDofs(m) == GetNEdges(m) * DofForGeometry(FMS_EDGE, m.order)

NFDofs(m) == SumSeq([i \in 1 .. GetNFaces(m) |-> FaceDofs(m, i)])

NBDofs(m) == SumSeq([i \in 1 .. GetNE(m) |-> ElemDofs(m, i)])

GetNDofs(m) == NVDofs(m) + NEDofs(m) + NFDofs(m) + NBDofs(m)

GetVDim(m) == m.spaceDim

\* nodes.Size()
NodesSize(m) == GetNDofs(m) * GetVDim(m)

DofToVDof(m, dof, j) ==
  IF m.byvdim THEN dof * GetVDim(m) + j ELSE dof + j * GetNDofs(m)

GetEdgeInteriorDofs(m, i) ==
  LET ne == DofForGeometry(FMS_EDGE, m.order)
  IN  [k \in 1 .. ne |-> NVDofs(m) + i * ne + k - 1]

GetFaceInteriorDofs(m, i) ==
  LET first == NVDofs(m) + NEDofs(m)
                 + SumSeq([f \in 1 .. i |-> FaceDofs(m, f)])
  IN  [k \in 1 .. FaceDofs(m, i + 1) |-> first + k - 1]

GetElementInteriorDofs(m, i) ==
  LET first == NVDofs(m) + NEDofs(m) + NFDofs(m)
                 + SumSeq([e \in 1 .. i |-> ElemDofs(m, e)])
  IN  [k \in 1 .. ElemDofs(m, i + 1) |-> first + k - 1]

(***************************************************************************)
(* H1_FECollection::DofOrderForOrientation: the interior DOF permutation   *)
(* of a segment, triangle or square of order p under orientation ori.      *)
(***************************************************************************)
SegDofOrd(p, ori) ==
  [k \in 1 .. (p - 1) |-> IF ori = 0 THEN k - 1 ELSE (p - 2) - (k - 1)]

\* Interior point (i, j) of the square, i + j*(p-1), under ori.
QuadDofAt(p, ori, i, j) ==
  LET pm1 == p - 1
      pm2 == p - 2
  IN  CASE ori = 0 -> i + j * pm1
        [] ori = 1 -> j + i * pm1
        [] ori = 2 -> j + (pm2 - i) * pm1
        [] ori = 3 -> (pm2 - i) + j * pm1
        [] ori = 4 -> (pm2 - i) + (pm2 - j) * pm1
        [] ori = 5 -> (pm2 - j) + (pm2 - i) * pm1
        [] ori = 6 -> (pm2 - j) + i * pm1
        [] OTHER -> i + (pm2 - j) * pm1

QuadDofOrd(p, ori) ==
  [o \in 1 .. ((p - 1) * (p - 1)) |->
     QuadDofAt(p, ori, (o - 1) % (p - 1), (o - 1) \div (p - 1))]

\* Index of interior point (i, j) of the triangle of order p.
TriIdx(p, i, j) ==
  DofForGeometry(FMS_TRIANGLE, p) - (((p - 1 - j) * (p - 2 - j)) \div 2) + i

TriDofAt(p, ori, i, j) ==
  LET k == (p - 3) - j - i
  IN  CASE ori = 0 -> TriIdx(p, i, j)
        [] ori = 1 -> TriIdx(p, k, j)
        [] ori = 2 -> TriIdx(p, k, i)
        [] ori = 3 -> TriIdx(p, i, k)
        [] ori = 4 -> TriIdx(p, j, k)
        [] OTHER -> TriIdx(p, j, i)

TriDofOrd(p, ori) ==
  LET pts == {ij \in (0 .. p) \X (0 .. p) : ij[1] + ij[2] <= p - 3}
  IN  [o \in 1 .. DofForGeometry(FMS_TRIANGLE, p) |->
         LET ij == CHOOSE q \in pts : TriIdx(p, q[1], q[2]) = o - 1
         IN  TriDofAt(p, ori, ij[1], ij[2])]

DofOrderForOrientation(et, p, ori) ==
  CASE et = FMS_EDGE -> SegDofOrd(p, ori)
    [] et = FMS_TRIANGLE -> TriDofOrd(p, ori)
    [] OTHER -> QuadDofOrd(p, ori)

(***************************************************************************)
(* mfem::HashTable<Hashed2> and HashTable<Hashed4>: the items in id order. *)
(* An edge is keyed by its two sorted vertices; a face by the smallest     *)
(* three of its four indices (a triangle passes INT_MAX as the fourth).    *)
(***************************************************************************)
Hashed2Key(p1, p2) == EdgeKey(p1, p2)

Hashed4Key(p1, p2, p3, p4) ==
  LET s == SortedSeq({p1, p2, p3, p4})
  IN  IF Len(s) >= 3 THEN <<s[1], s[2], s[3]>> ELSE s

\* FindId: the id of the item with this key, -1 when there is none.
FindKey(tbl, key) ==
  IF \E i \in DOMAIN tbl : tbl[i] = key
  THEN (CHOOSE i \in DOMAIN tbl : tbl[i] = key) - 1
  ELSE -1

\* GetId: as FindId, and a key not yet in the table is appended to it.
GetKey(tbl, key) ==
  IF FindKey(tbl, key) >= 0
  THEN [id |-> FindKey(tbl, key), tbl |-> tbl]
  ELSE [id |-> Len(tbl), tbl |-> Append(tbl, key)]

(***************************************************************************)
(* The state of one call of FmsDataCollectionToDataCollection and of the   *)
(* call of FmsMeshToMesh it makes.                                         *)
(***************************************************************************)
VARIABLES
  fms,                \* the source mesh (read only)
  pc,                 \* position in the code
  err,                \* FmsMeshToMesh: err
  cond,               \* the failure condition that set err ("" when none)
  main_comp, coords, bdr_comp,
  dim, space_dim, n_ents, n_elem, n_bdr_elem,
  mesh,               \* the mesh FmsMeshToMesh allocates
  elem_tag, bdr_tag, attr, bdr_attr,
  part_id, ent_type,  \* cursors of the loops over parts and entity types
  nodes,              \* the node array of the mesh (index k at nodes[k+1])
  mfem_edge, mfem_face,
  fms_dof_offset, mfem_ent_cnt, mfem_last_vert_cnt,
  lookups,            \* history: the FindId calls of the scatter
  ub,                 \* the call ran into undefined behaviour
  mfem_mesh,          \* the caller's Mesh*: "unwritten" or "mesh"
  ret,                \* value returned by FmsMeshToMesh (NULL before)
  mfem_dc,            \* the caller's DataCollection*: "unwritten"/"collection"
  retval              \* value returned by the wrapper (NULL before)

vars ==
  <<fms, pc, err, cond, main_comp, coords, bdr_comp, dim, space_dim, n_ents,
    n_elem, n_bdr_elem, mesh, elem_tag, bdr_tag, attr, bdr_attr, part_id,
    ent_type, nodes, mfem_edge, mfem_face, fms_dof_offset, mfem_ent_cnt,
    mfem_last_vert_cnt, lookups, ub, mfem_mesh, ret, mfem_dc, retval>>

Orders == 1 .. MaxOrder

Leads == 0 .. MaxLead

\* The variation sets explored with a base, layout and lead.
ModsAllowed(layout, lead, mods) ==
  /\ layout # "FMS_BY_VDIM" => mods \subseteq LayoutMods
  /\ lead # 0 => mods \subseteq LayoutMods \cup {"no_coords"}

Init ==
  /\ \E base \in Bases, order \in Orders, layout \in Layouts, lead \in Leads :
       \E i \in DOMAIN ModSeq :
         \E j \in i .. Len(ModSeq) :
           /\ ModsAllowed(layout, lead, {ModSeq[i], ModSeq[j]})
           /\ fms = BuildMesh(base, order, layout, lead,
                              {ModSeq[i], ModSeq[j]})
  /\ pc = "find_main"
  /\ err = 0
  /\ cond = ""
  /\ main_comp = NULL
  /\ coords = NULL
  /\ bdr_comp = NULL
  /\ dim = 0
  /\ space_dim = 0
  /\ n_ents = [t \in EntityTypes |-> 0]
  /\ n_elem = 0
  /\ n_bdr_elem = 0
  /\ mesh = NullMesh
  /\ elem_tag = NULL
  /\ bdr_tag = NULL
  /\ attr = <<>>
  /\ bdr_attr = <<>>
  /\ part_id = 0
  /\ ent_type = 0
  /\ nodes = <<>>
  /\ mfem_edge = <<>>
  /\ mfem_face = <<>>
  /\ fms_dof_offset = 0
  /\ mfem_ent_cnt = [d \in 0 .. 3 |-> 0]
  /\ mfem_last_vert_cnt = 0
  /\ lookups = <<>>
  /\ ub = FALSE
  /\ mfem_mesh = "unwritten"
  /\ ret = NULL
  /\ mfem_dc = "unwritten"
  /\ retval = 0

\* Handles resolved against the source mesh.
Comp(id) == fms.comps[id + 1]

Field(id) == fms.fields[id + 1]

MainParts == Comp(main_comp).parts

n_main_parts == Len(MainParts)

n_vert == n_ents[FMS_VERTEX]

(***************************************************************************)
(* Lines 23-35: the first component that has coordinates.                  *)
(***************************************************************************)
\* The loop of lines 29-34 as it would be without the break: the last
\* component that has coordinates.
RECURSIVE MainCompLoopLast(_, _, _)
MainCompLoopLast(comps, comp_id, c) ==
  IF comp_id >= Len(comps) THEN [main_comp |-> NULL, coords |-> c]
  ELSE LET cc == comps[comp_id + 1].coords
           r == MainCompLoopLast(comps, comp_id + 1, cc)
       IN  IF r.main_comp # NULL \/ cc = NULL THEN r
           ELSE [main_comp |-> comp_id, coords |-> cc]

RECURSIVE MainCompLoop(_, _, _)
MainCompLoop(comps, comp_id, c) ==
  IF comp_id >= Len(comps) THEN [main_comp |-> NULL, coords |-> c]
  ELSE LET cc == comps[comp_id + 1].coords
       IN  IF cc # NULL THEN [main_comp |-> comp_id, coords |-> cc]
           ELSE MainCompLoop(comps, comp_id + 1, cc)

FindMainComp ==
  /\ pc = "find_main"
  /\ LET r == MainCompLoop(fms.comps, 0, NULL)
     IN  /\ main_comp' = r.main_comp
         /\ coords' = r.coords
         /\ IF r.main_comp = NULL
            THEN /\ ret' = 1
                 /\ cond' = "NoMainComponent"
                 /\ pc' = "returned"
            ELSE /\ ret' = ret
                 /\ cond' = cond
                 /\ pc' = "setup"
  /\ UNCHANGED <<fms, err, bdr_comp, dim, space_dim, n_ents, n_elem,
                 n_bdr_elem, mesh, elem_tag, bdr_tag, attr, bdr_attr, part_id,
                 ent_type, nodes, mfem_edge, mfem_face, fms_dof_offset,
                 mfem_ent_cnt, mfem_last_vert_cnt, lookups, ub, mfem_mesh,
                 mfem_dc, retval>>

(***************************************************************************)
(* Lines 36-75: sizes, the boundary component, the allocation of the mesh. *)
(***************************************************************************)
RECURSIVE BdrCompLoop(_, _, _)
BdrCompLoop(rel, i, d) ==
  IF i >= Len(rel) THEN NULL
  ELSE IF Comp(rel[i + 1]).dim = d - 1 THEN rel[i + 1]
       ELSE BdrCompLoop(rel, i + 1, d)

Setup ==
  /\ pc = "setup"
  /\ LET mc == Comp(main_comp)
         bc == BdrCompLoop(mc.rel, 0, mc.dim)
     IN  /\ dim' = mc.dim
         /\ n_elem' = mc.num_ents
         /\ n_ents' = [t \in EntityTypes |-> PartsEnts(mc.parts, t)]
         /\ bdr_comp' = bc
         /\ n_bdr_elem' = IF bc # NULL THEN Comp(bc).num_ents ELSE 0
         /\ space_dim' = Field(coords).space_dim
         /\ mesh' = NewMesh(mc.dim, Field(coords).space_dim)
  /\ err' = 0
  /\ pc' = "tags"
  /\ UNCHANGED <<fms, cond, main_comp, coords, elem_tag, bdr_tag, attr,
                 bdr_attr, part_id, ent_type, nodes, mfem_edge, mfem_face,
                 fms_dof_offset, mfem_ent_cnt, mfem_last_vert_cnt, lookups,
                 ub, mfem_mesh, ret, mfem_dc, retval>>

(***************************************************************************)
(* Lines 77-121: the element and boundary tags and their attributes.       *)
(***************************************************************************)
RECURSIVE TagLoop(_, _, _, _)
TagLoop(tags, tag_id, etag, btag) ==
  IF tag_id >= Len(tags) THEN [elem_tag |-> etag, bdr_tag |-> btag]
  ELSE LET comp == tags[tag_id + 1].comp
       IN  IF etag = NULL /\ comp = main_comp
           THEN TagLoop(tags, tag_id + 1, tag_id, btag)
           ELSE IF btag = NULL /\ comp = bdr_comp
                THEN TagLoop(tags, tag_id + 1, etag, tag_id)
                ELSE TagLoop(tags, tag_id + 1, etag, btag)

AttrTypeOk(tag_id) ==
  fms.tags[tag_id + 1].type \in {"FMS_UINT8", "FMS_INT32", "FMS_UINT32"}

ReadTags ==
  /\ pc = "tags"
  /\ LET r == TagLoop(fms.tags, 0, NULL, NULL)
         e1 == r.elem_tag # NULL /\ ~AttrTypeOk(r.elem_tag)
         e2 == r.bdr_tag # NULL /\ ~AttrTypeOk(r.bdr_tag)
     IN  /\ elem_tag' = r.elem_tag
         /\ bdr_tag' = r.bdr_tag
         /\ attr' = IF r.elem_tag # NULL /\ ~e1
                    THEN fms.tags[r.elem_tag + 1].vals ELSE <<>>
         /\ bdr_attr' = IF r.bdr_tag # NULL /\ ~e1 /\ ~e2
                        THEN fms.tags[r.bdr_tag + 1].vals ELSE <<>>
         /\ err' = IF e1 THEN 1 ELSE IF e2 THEN 2 ELSE 0
         /\ cond' = IF e1 THEN "ElemAttrType"
                    ELSE IF e2 THEN "BdrAttrType" ELSE cond
         /\ pc' = IF e1 \/ e2 THEN "func_exit" ELSE "add_elems"
  /\ part_id' = 0
  /\ UNCHANGED <<fms, main_comp, coords, bdr_comp, dim, space_dim, n_ents,
                 n_elem, n_bdr_elem, mesh, ent_type, nodes, mfem_edge,
                 mfem_face, fms_dof_offset, mfem_ent_cnt, mfem_last_vert_cnt,
                 lookups, ub, mfem_mesh, ret, mfem_dc, retval>>

(***************************************************************************)
(* Lines 124-188: the elements, one part per step.                         *)
(***************************************************************************)
IdTypeOk(b) == ~b.has_ids \/ b.id_type \in {"FMS_INT32", "FMS_UINT32"}

\* ents_verts: the vertex tuples of the entities of a batch, resolved in
\* bulk from entity 0 when there are no ids, one id at a time otherwise.
EntsVerts(b) ==
  IF ~b.has_ids THEN [i \in 1 .. NumEnts(b) |-> b.dom[i]]
  ELSE [i \in 1 .. NumEnts(b) |-> b.dom[b.ids[i] + 1]]

\* attr[k] of a tag's array (k from 0).
AttrAt(a, k) == IF (k + 1) \in DOMAIN a THEN a[k + 1] ELSE 0

ElemGeom(t) ==
  CASE t = FMS_TRIANGLE -> "TRIANGLE"
    [] t = FMS_QUADRILATERAL -> "SQUARE"
    [] t = FMS_TETRAHEDRON -> "TETRAHEDRON"
    [] t = FMS_HEXAHEDRON -> "CUBE"
    [] OTHER -> "SEGMENT"

\* The attribute read from the tag's array whether or not there is a tag.
ElemAttrFromArray(tag, a, offset, i) == AttrAt(a, offset + i)

\* The attribute of the i-th entity (i from 0) of a batch added at offset.
ElemAttr(tag, a, offset, i) == IF tag # NULL THEN AttrAt(a, offset + i) ELSE 1

RECURSIVE AddBatch(_, _, _, _, _, _)
AddBatch(m, t, ev, i, elem_offset, isBdr) ==
  IF i >= Len(ev) THEN m
  ELSE AddBatch(IF isBdr
                THEN AddBdrElement(m, ElemGeom(t), ev[i + 1],
                                   ElemAttr(bdr_tag, bdr_attr, elem_offset, i))
                ELSE AddElement(m, ElemGeom(t), ev[i + 1],
                                ElemAttr(elem_tag, attr, elem_offset, i)),
                t, ev, i + 1, elem_offset, isBdr)

\* The loop of lines 133-187 as it would be if it passed over edges the way
\* it passes over any other entity type that is no element.
RECURSIVE AddElemsLoopEdgesPassed(_, _, _)
AddElemsLoopEdgesPassed(m, part, t) ==
  IF t >= FMS_NUM_ENTITY_TYPES THEN [mesh |-> m, err |-> 0, cond |-> ""]
  ELSE IF FmsEntityDim(t) # dim \/ NumEnts(part[t]) = 0 \/ t = FMS_EDGE
  THEN AddElemsLoopEdgesPassed(m, part, t + 1)
  ELSE IF ~IdTypeOk(part[t])
       THEN [mesh |-> m, err |-> 3, cond |-> "EntityIdType"]
  ELSE IF part[t].ori
       THEN [mesh |-> m, err |-> 4, cond |-> "OrientationFlags"]
  ELSE AddElemsLoopEdgesPassed(AddBatch(m, t, EntsVerts(part[t]), 0, GetNE(m),
                                        FALSE), part, t + 1)

RECURSIVE AddElemsLoop(_, _, _)
AddElemsLoop(m, part, t) ==
  IF t >= FMS_NUM_ENTITY_TYPES THEN [mesh |-> m, err |-> 0, cond |-> ""]
  ELSE IF FmsEntityDim(t) # dim THEN AddElemsLoop(m, part, t + 1)
  ELSE IF NumEnts(part[t]) = 0 THEN AddElemsLoop(m, part, t + 1)
  ELSE IF ~IdTypeOk(part[t])
       THEN [mesh |-> m, err |-> 3, cond |-> "EntityIdType"]
  ELSE IF part[t].ori
       THEN [mesh |-> m, err |-> 4, cond |-> "OrientationFlags"]
  ELSE IF t = FMS_EDGE
       THEN [mesh |-> m, err |-> 5, cond |-> "EdgeAsElement"]
  ELSE IF t \in {FMS_TRIANGLE, FMS_QUADRILATERAL, FMS_TETRAHEDRON,
                 FMS_HEXAHEDRON}
       THEN AddElemsLoop(AddBatch(m, t, EntsVerts(part[t]), 0, GetNE(m),
                                  FALSE), part, t + 1)
  ELSE AddElemsLoop(m, part, t + 1)

AddElements ==
  /\ pc = "add_elems"
  /\ IF part_id < n_main_parts
     THEN LET r == AddElemsLoop(mesh, MainParts[part_id + 1], FMS_VERTEX)
          IN  /\ mesh' = r.mesh
              /\ err' = r.err
              /\ cond' = IF r.err # 0 THEN r.cond ELSE cond
              /\ pc' = IF r.err # 0 THEN "func_exit" ELSE pc
              /\ part_id' = part_id + 1
     ELSE /\ pc' = "add_bdr"
          /\ part_id' = 0
          /\ UNCHANGED <<mesh, err, cond>>
  /\ UNCHANGED <<fms, main_comp, coords, bdr_comp, dim, space_dim, n_ents,
                 n_elem, n_bdr_elem, elem_tag, bdr_tag, attr, bdr_attr,
                 ent_type, nodes, mfem_edge, mfem_face, fms_dof_offset,
                 mfem_ent_cnt, mfem_last_vert_cnt, lookups, ub, mfem_mesh,
                 ret, mfem_dc, retval>>

(***************************************************************************)
(* Lines 191-253: the boundary elements, one part per step.                *)
(***************************************************************************)
RECURSIVE AddBdrLoop(_, _, _)
AddBdrLoop(m, part, t) ==
  IF t >= FMS_NUM_ENTITY_TYPES THEN [mesh |-> m, err |-> 0, cond |-> ""]
  ELSE IF FmsEntityDim(t) # dim - 1 THEN AddBdrLoop(m, part, t + 1)
  ELSE IF NumEnts(part[t]) = 0 THEN AddBdrLoop(m, part, t + 1)
  ELSE IF ~IdTypeOk(part[t])
       THEN [mesh |-> m, err |-> 6, cond |-> "EntityIdType"]
  ELSE IF part[t].ori
       THEN [mesh |-> m, err |-> 7, cond |-> "OrientationFlags"]
  ELSE IF t \in {FMS_EDGE, FMS_TRIANGLE, FMS_QUADRILATERAL}
       THEN AddBdrLoop(AddBatch(m, t, EntsVerts(part[t]), 0, GetNBE(m), TRUE),
                       part, t + 1)
  ELSE AddBdrLoop(m, part, t + 1)

n_bdr_parts == IF bdr_comp # NULL THEN Len(Comp(bdr_comp).parts) ELSE 0

AddBdrElements ==
  /\ pc = "add_bdr"
  /\ IF bdr_comp # NULL /\ n_bdr_elem > 0 /\ part_id < n_bdr_parts
     THEN LET r == AddBdrLoop(mesh, Comp(bdr_comp).parts[part_id + 1],
                              FMS_VERTEX)
          IN  /\ mesh' = r.mesh
              /\ err' = r.err
              /\ cond' = IF r.err # 0 THEN r.cond ELSE cond
              /\ pc' = IF r.err # 0 THEN "func_exit" ELSE pc
              /\ part_id' = part_id + 1
     ELSE /\ pc' = "field"
          /\ part_id' = 0
          /\ UNCHANGED <<mesh, err, cond>>
  /\ UNCHANGED <<fms, main_comp, coords, bdr_comp, dim, space_dim, n_ents,
                 n_elem, n_bdr_elem, elem_tag, bdr_tag, attr, bdr_attr,
                 ent_type, nodes, mfem_edge, mfem_face, fms_dof_offset,
                 mfem_ent_cnt, mfem_last_vert_cnt, lookups, ub, mfem_mesh,
                 ret, mfem_dc, retval>>

(***************************************************************************)
(* Lines 261-292: the checks of the coordinate field.                      *)
(***************************************************************************)
\* The checks of the field as they would be with one code for a field that
\* is not continuous and for a basis that is not closed.
FieldCheckOneBasisCode(f) ==
  IF f.data_type # "FMS_DOUBLE" THEN [err |-> 8, cond |-> "NotDouble"]
  ELSE IF f.fd_type # "FMS_FIXED_ORDER"
       THEN [err |-> 9, cond |-> "NotFixedOrder"]
  ELSE IF f.field_type # "FMS_CONTINUOUS"
          \/ f.basis_type # "FMS_NODAL_GAUSS_CLOSED"
       THEN [err |-> 11, cond |-> "BasisNotClosed"]
  ELSE [err |-> 0, cond |-> ""]

FieldCheck(f) ==
  IF f.data_type # "FMS_DOUBLE" THEN [err |-> 8, cond |-> "NotDouble"]
  ELSE IF f.fd_type # "FMS_FIXED_ORDER"
       THEN [err |-> 9, cond |-> "NotFixedOrder"]
  ELSE IF f.field_type # "FMS_CONTINUOUS"
       THEN [err |-> 10, cond |-> "NotContinuous"]
  ELSE IF f.basis_type # "FMS_NODAL_GAUSS_CLOSED"
       THEN [err |-> 11, cond |-> "BasisNotClosed"]
  ELSE [err |-> 0, cond |-> ""]

\* The checks of the field as they would be if a failed check set its code
\* and the conversion went on.
CheckFieldGoesOn ==
  /\ pc = "field"
  /\ LET r == FieldCheck(Field(coords))
     IN  /\ err' = r.err
         /\ cond' = IF r.err # 0 THEN r.cond ELSE cond
         /\ pc' = "finalize"
  /\ UNCHANGED <<fms, main_comp, coords, bdr_comp, dim, space_dim, n_ents,
                 n_elem, n_bdr_elem, mesh, elem_tag, bdr_tag, attr, bdr_attr,
                 part_id, ent_type, nodes, mfem_edge, mfem_face,
                 fms_dof_offset, mfem_ent_cnt, mfem_last_vert_cnt, lookups,
                 ub, mfem_mesh, ret, mfem_dc, retval>>

CheckField ==
  /\ pc = "field"
  /\ LET r == FieldCheck(Field(coords))
     IN  /\ err' = r.err
         /\ cond' = IF r.err # 0 THEN r.cond ELSE cond
         /\ pc' = IF r.err # 0 THEN "func_exit" ELSE "finalize"
  /\ UNCHANGED <<fms, main_comp, coords, bdr_comp, dim, space_dim, n_ents,
                 n_elem, n_bdr_elem, mesh, elem_tag, bdr_tag, attr, bdr_attr,
                 part_id, ent_type, nodes, mfem_edge, mfem_face,
                 fms_dof_offset, mfem_ent_cnt, mfem_last_vert_cnt, lookups,
                 ub, mfem_mesh, ret, mfem_dc, retval>>

(***************************************************************************)
(* Lines 294-338: the vertices at the origin, the topology, the nodes of   *)
(* the field's order and layout, and the check of their number.            *)
(***************************************************************************)
coords_order == Field(coords).order

coords_num_dofs == Field(coords).num_dofs

by_vdim == Field(coords).layout = "FMS_BY_VDIM"

nstride == IF by_vdim THEN space_dim ELSE 1

vstride == IF by_vdim THEN 1 ELSE coords_num_dofs

ent_dofs(t) == DofForGeometry(t, coords_order)

AddVertices(m, n) == [m EXCEPT !.NumOfVertices = @ + n]

FinalizeMesh ==
  /\ pc = "finalize"
  /\ LET m == SetCurvature(FinalizeTopology(AddVertices(mesh, n_vert)),
                           coords_order, by_vdim)
         bad == NodesSize(m) # coords_num_dofs * space_dim
     IN  /\ mesh' = m
         /\ nodes' = [k \in 1 .. NodesSize(m) |-> 0]
         /\ err' = IF bad THEN 12 ELSE 0
         /\ cond' = IF bad THEN "NodeCountMismatch" ELSE cond
         /\ pc' = IF bad THEN "func_exit" ELSE "edge_index"
  /\ fms_dof_offset' = 0
  /\ mfem_ent_cnt' = [d \in 0 .. 3 |-> 0]
  /\ mfem_last_vert_cnt' = 0
  /\ UNCHANGED <<fms, main_comp, coords, bdr_comp, dim, space_dim, n_ents,
                 n_elem, n_bdr_elem, elem_tag, bdr_tag, attr, bdr_attr,
                 part_id, ent_type, mfem_edge, mfem_face, lookups, ub,
                 mfem_mesh, ret, mfem_dc, retval>>

(***************************************************************************)
(* Lines 339-360: the canonical entity index.  Every edge (face) of the    *)
(* mesh is inserted in index order and must get its own index as id.       *)
(***************************************************************************)
\* The loop of lines 343-347 as it would be if it ran from the last edge
\* down to the first.
RECURSIVE EdgeIndexLoopDown(_, _, _)
EdgeIndexLoopDown(m, tbl, i) ==
  IF i >= GetNEdges(m) THEN [tbl |-> tbl, err |-> 0]
  ELSE LET ev == GetEdgeVertices(m, GetNEdges(m) - 1 - i)
           r == GetKey(tbl, Hashed2Key(ev[1], ev[2]))
       IN  IF r.id # GetNEdges(m) - 1 - i THEN [tbl |-> r.tbl, err |-> 13]
           ELSE EdgeIndexLoopDown(m, r.tbl, i + 1)

RECURSIVE EdgeIndexLoop(_, _, _)
EdgeIndexLoop(m, tbl, i) ==
  IF i >= GetNEdges(m) THEN [tbl |-> tbl, err |-> 0]
  ELSE LET ev == GetEdgeVertices(m, i)
           r == GetKey(tbl, Hashed2Key(ev[1], ev[2]))
       IN  IF r.id # i THEN [tbl |-> r.tbl, err |-> 13]
           ELSE EdgeIndexLoop(m, r.tbl, i + 1)

EdgeIndexBuilt == dim >= 2 /\ ent_dofs(FMS_EDGE) > 0

BuildEdgeIndex ==
  /\ pc = "edge_index"
  /\ LET r == IF EdgeIndexBuilt THEN EdgeIndexLoop(mesh, <<>>, 0)
              ELSE [tbl |-> <<>>, err |-> 0]
     IN  /\ mfem_edge' = r.tbl
         /\ err' = r.err
         /\ cond' = IF r.err # 0 THEN "TopologyIndexMismatch" ELSE cond
         /\ pc' = IF r.err # 0 THEN "func_exit" ELSE "face_index"
  /\ UNCHANGED <<fms, main_comp, coords, bdr_comp, dim, space_dim, n_ents,
                 n_elem, n_bdr_elem, mesh, elem_tag, bdr_tag, attr, bdr_attr,
                 part_id, ent_type, nodes, mfem_face, fms_dof_offset,
                 mfem_ent_cnt, mfem_last_vert_cnt, lookups, ub, mfem_mesh,
                 ret, mfem_dc, retval>>

\* fv of a face, a triangle padded with INT_MAX.
PaddedFace(fv) == IF Len(fv) = 3 THEN Append(fv, INT_MAX) ELSE fv

RECURSIVE FaceIndexLoop(_, _, _)
FaceIndexLoop(m, tbl, i) ==
  IF i >= GetNFaces(m) THEN [tbl |-> tbl, err |-> 0]
  ELSE LET fv == PaddedFace(GetFaceVertices(m, i))
           r == GetKey(tbl, Hashed4Key(fv[1], fv[2], fv[3], fv[4]))
       IN  IF r.id # i THEN [tbl |-> r.tbl, err |-> 14]
           ELSE FaceIndexLoop(m, r.tbl, i + 1)

FaceIndexBuilt ==
  /\ dim >= 3
  /\ \/ n_ents[FMS_TRIANGLE] > 0 /\ ent_dofs(FMS_TRIANGLE) > 0
     \/ n_ents[FMS_QUADRILATERAL] > 0 /\ ent_dofs(FMS_QUADRILATERAL) > 0

BuildFaceIndex ==
  /\ pc = "face_index"
  /\ LET r == IF FaceIndexBuilt THEN FaceIndexLoop(mesh, <<>>, 0)
              ELSE [tbl |-> <<>>, err |-> 0]
     IN  /\ mfem_face' = r.tbl
         /\ err' = r.err
         /\ cond' = IF r.err # 0 THEN "TopologyIndexMismatch" ELSE cond
         /\ pc' = IF r.err # 0 THEN "func_exit" ELSE "scatter"
  /\ part_id' = 0
  /\ ent_type' = FMS_VERTEX
  /\ UNCHANGED <<fms, main_comp, coords, bdr_comp, dim, space_dim, n_ents,
                 n_elem, n_bdr_elem, mesh, elem_tag, bdr_tag, attr, bdr_attr,
                 nodes, mfem_edge, fms_dof_offset, mfem_ent_cnt,
                 mfem_last_vert_cnt, lookups, ub, mfem_mesh, ret, mfem_dc,
                 retval>>

(***************************************************************************)
(* Lines 363-502: the scatter of the coordinates, one (part, entity type)  *)
(* batch per step.  The running locals travel in a record st.              *)
(***************************************************************************)
coords_dbl_data(k) == CoordsData(Field(coords), k)

\* nodes(k) = v
SetNode(nd, k, v) == IF (k + 1) \in DOMAIN nd THEN [nd EXCEPT ![k + 1] = v]
                     ELSE nd

\* The vertex copy as it would be without mfem_dof_offset in the target index.
RECURSIVE CopyVertexDofsAtZero(_, _, _, _, _)
CopyVertexDofsAtZero(nd, q, total, mfem_dof_offset, off) ==
  IF q >= total THEN nd
  ELSE LET i == q \div space_dim
           j == q % space_dim
           idx == i * nstride + j * vstride
       IN  CopyVertexDofsAtZero(SetNode(nd, idx,
                                        coords_dbl_data(off * nstride + idx)),
                                q + 1, total, mfem_dof_offset, off)

\* Lines 389-396, flattened: q = i*vdim + j.
RECURSIVE CopyVertexDofs(_, _, _, _, _)
CopyVertexDofs(nd, q, total, mfem_dof_offset, off) ==
  IF q >= total THEN nd
  ELSE LET i == q \div space_dim
           j == q % space_dim
           idx == i * nstride + j * vstride
       IN  CopyVertexDofs(SetNode(nd, mfem_dof_offset * nstride + idx,
                                  coords_dbl_data(off * nstride + idx)),
                          q + 1, total, mfem_dof_offset, off)

\* The copy of the interior DOFs of one entity: DOF i of the target takes
\* source value off + perm[i]; q = i*vdim + j.
RECURSIVE CopyEntityDofs(_, _, _, _, _, _)
CopyEntityDofs(nd, dofs, perm, n, off, q) ==
  IF q >= n * space_dim THEN nd
  ELSE LET i == q \div space_dim
           j == q % space_dim
       IN  CopyEntityDofs(SetNode(nd, DofToVDof(mesh, dofs[i + 1], j),
                                  coords_dbl_data((off + perm[i + 1]) * nstride
                                                   + j * vstride)),
                          dofs, perm, n, off, q + 1)

\* Lines 404-412: the elements of a batch, copied without permutation.
RECURSIVE CopyElements(_, _, _, _)
CopyElements(st, t, num, e) ==
  IF e >= num THEN st
  ELSE CopyElements(
         [st EXCEPT
            !.nodes = CopyEntityDofs(
                        @, GetElementInteriorDofs(mesh, st.cnt[dim] + e),
                        Identity(ent_dofs(t)), ent_dofs(t), st.off, 0),
            !.off = @ + ent_dofs(t)],
         t, num, e + 1)

\* ents_verts as the flat array the code holds (a from 0).
FlatAt(ev, nv, a) == ev[(a \div nv) + 1][(a % nv) + 1]

\* while (tv[ori] != m_ev[0]) ori++, on the flat array from entity e: the
\* rotation found, or -1 when the search runs off the end of the array.
RECURSIVE RotSearch(_, _, _, _, _)
RotSearch(ev, nv, e, first, k) ==
  IF nv * e + k >= nv * Len(ev) THEN -1
  ELSE IF FlatAt(ev, nv, nv * e + k) = first THEN k
       ELSE RotSearch(ev, nv, e, first, k + 1)

FaceOri(tv, nv, m_ev, k) ==
  IF tv[((k + 1) % nv) + 1] = m_ev[2] THEN 2 * k ELSE 2 * k + 1

OrphanCode(t) ==
  CASE t = FMS_EDGE -> 17
    [] t = FMS_TRIANGLE -> 18
    [] OTHER -> 19

\* The lookup of entity tuple tv of type t in the edge or face table.
LookupId(t, tv) ==
  CASE t = FMS_EDGE -> FindKey(mfem_edge, Hashed2Key(tv[1], tv[2]))
    [] t = FMS_TRIANGLE ->
         FindKey(mfem_face, Hashed4Key(tv[1], tv[2], tv[3], INT_MAX))
    [] OTHER -> FindKey(mfem_face, Hashed4Key(tv[1], tv[2], tv[3], tv[4]))

\* What the choices of a build are when the code runs into undefined
\* behaviour: -1 stops the process, any other value is the orientation read.
UBChoices == -1 .. 7

\* Lines 460-475: the orientation of source tuple tv against the mesh
\* entity m_ev, k the rotation found; undefined behaviour reads ubc.
EntOri(t, tv, nv, m_ev, k, undef, ubc) ==
  IF t = FMS_EDGE THEN (IF tv[1] = m_ev[1] THEN 0 ELSE 1)
  ELSE IF undef THEN ubc % (2 * nv)
  ELSE FaceOri(tv, nv, m_ev, k)

\* One lookup as the scatter did it: the entity type, the vertex tuple
\* looked up, mfem_last_vert_cnt as added to it, the part it is of, the
\* index found, the rotation found and the orientation code used.
LookupRecord(st, t, tv, id) ==
  [et |-> t, verts |-> tv, off |-> st.last, part |-> part_id + 1, id |-> id,
   rot |-> NULL, ori |-> NULL]

\* Lines 476-494: the copy of one entity under the permutation of its
\* orientation.
CopyOriented(st, t, tv, nv, m_ev, dofs, k, ubc, lg) ==
  LET undef == k < 0 \/ k >= nv \/ Len(dofs) < ent_dofs(t)
  IN  IF undef /\ ubc < 0
      THEN [st EXCEPT !.hit = TRUE, !.crash = TRUE,
                      !.log = Append(@, [lg EXCEPT !.rot = k])]
      ELSE [st EXCEPT
              !.nodes = CopyEntityDofs(
                          @, dofs,
                          DofOrderForOrientation(
                            t, coords_order,
                            EntOri(t, tv, nv, m_ev, k, undef, ubc)),
                          IF Len(dofs) < ent_dofs(t) THEN Len(dofs)
                          ELSE ent_dofs(t),
                          st.off, 0),
              !.off = @ + ent_dofs(t),
              !.hit = @ \/ undef,
              !.log = Append(@, [lg EXCEPT
                                   !.rot = k,
                                   !.ori = EntOri(t, tv, nv, m_ev, k, undef,
                                                  ubc)])]

\* Lines 448-459: the mesh entity of index id and the rotation search.
ScatterAt(st, t, ev, e, nv, m_ev, dofs, ubc, lg) ==
  CopyOriented(st, t, ev[e + 1], nv, m_ev, dofs,
               IF t = FMS_EDGE THEN 0 ELSE RotSearch(ev, nv, e, m_ev[1], 0),
               ubc, lg)

\* The lookup result ignored: the entity copied to the target entity of its
\* own position in the batch.
ScatterFoundAtPosition(st, t, ev, e, id, ubc) ==
  ScatterAt(st, t, ev, e, FmsEntityNumVerts(t),
            IF t = FMS_EDGE THEN GetEdgeVertices(mesh, e)
            ELSE GetFaceVertices(mesh, e),
            IF t = FMS_EDGE THEN GetEdgeInteriorDofs(mesh, e)
            ELSE GetFaceInteriorDofs(mesh, e),
            ubc, LookupRecord(st, t, ev[e + 1], id))

\* Lines 436-447: the result of the lookup of entity e.
ScatterFound(st, t, ev, e, id, ubc) ==
  IF id < 0
  THEN [st EXCEPT !.err = OrphanCode(t), !.cond = "OrphanEntity",
                  !.log = Append(@, LookupRecord(st, t, ev[e + 1], id))]
  ELSE ScatterAt(st, t, ev, e, FmsEntityNumVerts(t),
                 IF t = FMS_EDGE THEN GetEdgeVertices(mesh, id)
                 ELSE GetFaceVertices(mesh, id),
                 IF t = FMS_EDGE THEN GetEdgeInteriorDofs(mesh, id)
                 ELSE GetFaceInteriorDofs(mesh, id),
                 ubc, LookupRecord(st, t, ev[e + 1], id))

\* Lines 433-497: the edges, triangles or quads of a batch, looked up in the
\* index and copied under the permutation of their orientation.
RECURSIVE ScatterEnts(_, _, _, _, _)
ScatterEnts(st, t, ev, e, ubc) ==
  IF e >= Len(ev) \/ st.err # 0 \/ st.crash THEN st
  ELSE ScatterEnts(ScatterFound(st, t, ev, e, LookupId(t, ev[e + 1]), ubc),
                   t, ev, e + 1, ubc)

\* ents_verts of a batch below the elements, moved by mfem_last_vert_cnt.
OffsetVerts(b, t, last) ==
  [i \in 1 .. NumEnts(b) |->
     [c \in 1 .. FmsEntityNumVerts(t) |-> EntsVerts(b)[i][c] + last]]

\* Lines 398-497 after the checks of the batch: its entities copied.
CopyBatch(st, t, b, num_ents, d, ubc) ==
  IF t = FMS_VERTEX
  THEN [st EXCEPT
          !.nodes = CopyVertexDofs(@, 0, num_ents * ent_dofs(t) * space_dim,
                                   st.cnt[0] * ent_dofs(t), st.off),
          !.off = @ + num_ents * ent_dofs(t),
          !.last = st.cnt[t],
          !.cnt[0] = @ + num_ents]
  ELSE IF d = dim
  THEN [CopyElements(st, t, num_ents, 0) EXCEPT !.cnt[dim] = @ + num_ents]
  ELSE IF t \in {FMS_EDGE, FMS_TRIANGLE, FMS_QUADRILATERAL}
  THEN ScatterEnts(st, t, OffsetVerts(b, t, st.last), 0, ubc)
  ELSE st

\* cnt[d] advances unless the batch failed.
CountBatch(r, t, num_ents, d) ==
  IF r.err # 0 \/ r.crash \/ t = FMS_VERTEX \/ d = dim THEN r
  ELSE [r EXCEPT !.cnt[d] = @ + num_ents]

\* One iteration of the loop of line 365 as it would be if a batch without
\* DOFs were passed over without being counted.
ScatterBatchSkipUncounted(st, t, b, ubc) ==
  IF NumEnts(b) = 0 THEN st
  ELSE IF ent_dofs(t) = 0
  THEN [st EXCEPT !.last = IF t = FMS_VERTEX THEN st.cnt[t] ELSE @]
  ELSE IF ~IdTypeOk(b)
  THEN [st EXCEPT !.err = 15, !.cond = "EntityIdType"]
  ELSE IF b.ori
  THEN [st EXCEPT !.err = 16, !.cond = "OrientationFlags"]
  ELSE CountBatch(CopyBatch(st, t, b, NumEnts(b), FmsEntityDim(t), ubc),
                  t, NumEnts(b), FmsEntityDim(t))

\* One iteration of the loop of line 365.
ScatterBatch(st, t, b, ubc) ==
  IF NumEnts(b) = 0 THEN st
  ELSE IF ent_dofs(t) = 0
  THEN [st EXCEPT !.last = IF t = FMS_VERTEX THEN st.cnt[t] ELSE @,
                  !.cnt[FmsEntityDim(t)] = @ + NumEnts(b)]
  ELSE IF ~IdTypeOk(b)
  THEN [st EXCEPT !.err = 15, !.cond = "EntityIdType"]
  ELSE IF b.ori
  THEN [st EXCEPT !.err = 16, !.cond = "OrientationFlags"]
  ELSE CountBatch(CopyBatch(st, t, b, NumEnts(b), FmsEntityDim(t), ubc),
                  t, NumEnts(b), FmsEntityDim(t))

\* The running locals of the scatter as one record.
ScatterState ==
  [nodes |-> nodes, off |-> fms_dof_offset, cnt |-> mfem_ent_cnt,
   last |-> mfem_last_vert_cnt, err |-> 0, cond |-> cond, log |-> lookups,
   hit |-> FALSE, crash |-> FALSE]

Scatter ==
  /\ pc = "scatter"
  /\ IF part_id < n_main_parts
     THEN \E r0 \in {ScatterBatch(ScatterState, ent_type,
                                  MainParts[part_id + 1][ent_type], 0)} :
          \E ubc \in IF r0.hit THEN UBChoices ELSE {0} :
          \E r \in {IF r0.hit
                    THEN ScatterBatch(ScatterState, ent_type,
                                      MainParts[part_id + 1][ent_type], ubc)
                    ELSE r0} :
            /\ nodes' = r.nodes
            /\ fms_dof_offset' = r.off
            /\ mfem_ent_cnt' = r.cnt
            /\ mfem_last_vert_cnt' = r.last
            /\ err' = r.err
            /\ cond' = r.cond
            /\ lookups' = r.log
            /\ ub' = (ub \/ r.hit)
            /\ pc' = IF r.crash THEN "crashed"
                     ELSE IF r.err # 0 THEN "func_exit" ELSE pc
            /\ IF ent_type + 1 < FMS_NUM_ENTITY_TYPES
               THEN /\ ent_type' = ent_type + 1
                    /\ part_id' = part_id
               ELSE /\ ent_type' = FMS_VERTEX
                    /\ part_id' = part_id + 1
     ELSE /\ pc' = "func_exit"
          /\ UNCHANGED <<nodes, fms_dof_offset, mfem_ent_cnt,
                         mfem_last_vert_cnt, err, cond, lookups, ub, part_id,
                         ent_type>>
  /\ UNCHANGED <<fms, main_comp, coords, bdr_comp, dim, space_dim, n_ents,
                 n_elem, n_bdr_elem, mesh, elem_tag, bdr_tag, attr, bdr_attr,
                 mfem_edge, mfem_face, mfem_mesh, ret, mfem_dc, retval>>

(***************************************************************************)
(* Lines 505-513: func_exit.                                               *)
(***************************************************************************)
\* func_exit as it would be if the output pointer were written on every path.
FuncExitAlwaysWrites ==
  /\ pc = "func_exit"
  /\ mesh' = IF err # 0 THEN [mesh EXCEPT !.state = "deleted"] ELSE mesh
  /\ mfem_mesh' = "mesh"
  /\ ret' = err
  /\ pc' = "returned"
  /\ UNCHANGED <<fms, err, cond, main_comp, coords, bdr_comp, dim, space_dim,
                 n_ents, n_elem, n_bdr_elem, elem_tag, bdr_tag, attr,
                 bdr_attr, part_id, ent_type, nodes, mfem_edge, mfem_face,
                 fms_dof_offset, mfem_ent_cnt, mfem_last_vert_cnt, lookups,
                 ub, mfem_dc, retval>>

FuncExit ==
  /\ pc = "func_exit"
  /\ IF err # 0
     THEN /\ mesh' = [mesh EXCEPT !.state = "deleted"]
          /\ mfem_mesh' = mfem_mesh
     ELSE /\ mesh' = mesh
          /\ mfem_mesh' = "mesh"
  /\ ret' = err
  /\ pc' = "returned"
  /\ UNCHANGED <<fms, err, cond, main_comp, coords, bdr_comp, dim, space_dim,
                 n_ents, n_elem, n_bdr_elem, elem_tag, bdr_tag, attr,
                 bdr_attr, part_id, ent_type, nodes, mfem_edge, mfem_face,
                 fms_dof_offset, mfem_ent_cnt, mfem_last_vert_cnt, lookups,
                 ub, mfem_dc, retval>>

(***************************************************************************)
(* Lines 519-543: FmsDataCollectionToDataCollection after the call of      *)
(* FmsMeshToMesh returned.  The int retval is assigned the bool true on    *)
(* success and the int 1 on failure.                                       *)
(***************************************************************************)
BoolToInt(b) == IF b THEN 1 ELSE 0

DCSuccessRetval == BoolToInt(TRUE)

DCFailureRetval == 1

DCReturn ==
  /\ pc = "returned"
  /\ IF ret = 0
     THEN /\ mfem_dc' = "collection"
          /\ retval' = DCSuccessRetval
     ELSE /\ mfem_dc' = mfem_dc
          /\ retval' = DCFailureRetval
  /\ pc' = "done"
  /\ UNCHANGED <<fms, err, cond, main_comp, coords, bdr_comp, dim, space_dim,
                 n_ents, n_elem, n_bdr_elem, mesh, elem_tag, bdr_tag, attr,
                 bdr_attr, part_id, ent_type, nodes, mfem_edge, mfem_face,
                 fms_dof_offset, mfem_ent_cnt, mfem_last_vert_cnt, lookups,
                 ub, mfem_mesh, ret>>

Next ==
  \/ FindMainComp
  \/ Setup
  \/ ReadTags
  \/ AddElements
  \/ AddBdrElements
  \/ CheckField
  \/ FinalizeMesh
  \/ BuildEdgeIndex
  \/ BuildFaceIndex
  \/ Scatter
  \/ FuncExit
  \/ DCReturn

Spec == Init /\ [][Next]_vars

(***************************************************************************)
(* The failure conditions and the codes the source returns for each: line  *)
(* 35 (1), 105 (1), 118 (2), the id-type checks (3, 6, 15), the            *)
(* orientation checks (4, 7, 16), 5, 8-12, 13/14 and 17/18/19.             *)
(***************************************************************************)
Conditions ==
  {"NoMainComponent", "ElemAttrType", "BdrAttrType", "EntityIdType",
   "OrientationFlags", "EdgeAsElement", "NotDouble", "NotFixedOrder",
   "NotContinuous", "BasisNotClosed", "NodeCountMismatch",
   "TopologyIndexMismatch", "OrphanEntity"}

FailureCodes(c) ==
  CASE c = "NoMainComponent" -> {1}
    [] c = "ElemAttrType" -> {1}
    [] c = "BdrAttrType" -> {2}
    [] c = "EntityIdType" -> {3, 6, 15}
    [] c = "OrientationFlags" -> {4, 7, 16}
    [] c = "EdgeAsElement" -> {5}
    [] c = "NotDouble" -> {8}
    [] c = "NotFixedOrder" -> {9}
    [] c = "NotContinuous" -> {10}
    [] c = "BasisNotClosed" -> {11}
    [] c = "NodeCountMismatch" -> {12}
    [] c = "TopologyIndexMismatch" -> {13, 14}
    [] OTHER -> {17, 18, 19}

(***************************************************************************)
(* Properties.                                                             *)
(***************************************************************************)
\* FmsMeshToMesh has returned.
Returned == pc \in {"returned", "done"}

\* The batches of the parts of a component that hold at least one entity
\* and carry orientation flags.
OrientedBatches(c) ==
  {pt \in (DOMAIN c.parts) \X EntityTypes :
     NumEnts(c.parts[pt[1]][pt[2]]) > 0 /\ c.parts[pt[1]][pt[2]].ori}

\* C1: the caller's mesh pointer is written if and only if FmsMeshToMesh
\* returns 0.  On a nonzero return (the early return of line 35 included)
\* the pointer is unwritten and a mesh that was allocated has been deleted;
\* on return 0 the pointer is the mesh of this call, which is live.  Before
\* the return the pointer is never written.
C1_OutputIffSuccess ==
  /\ ~Returned => mfem_mesh = "unwritten"
  /\ Returned =>
       /\ (mfem_mesh = "mesh") <=> (ret = 0)
       /\ ret # 0 => mfem_mesh = "unwritten" /\ mesh.state \in {"null", "deleted"}
       /\ ret # 0 /\ cond # "NoMainComponent" => mesh.state = "deleted"
       /\ ret = 0 => mesh.state = "live"

\* A failure after the allocation: the mesh is deleted, the pointer unwritten.
C1_Witness ==
  /\ pc = "returned"
  /\ ret # 0
  /\ mesh.state = "deleted"
  /\ mfem_mesh = "unwritten"
  /\ GetNE(mesh) > 0

\* C2 as stated: the value FmsDataCollectionToDataCollection returns after
\* FmsMeshToMesh returned 0 differs from the value it returns after a
\* nonzero return, and the collection is written on the success path only.
C2_ReturnTellsSuccess ==
  pc = "done" =>
    /\ ret = 0 => retval # DCFailureRetval
    /\ ret # 0 => retval # DCSuccessRetval
    /\ mfem_dc = "collection" => ret = 0

\* C3 as stated: the nonzero code identifies the failure condition, that
\* is, no other condition is reported with the code returned.
C3_CodeIdentifiesCondition ==
  Returned /\ ret # 0 =>
    \A c \in Conditions : ret \in FailureCodes(c) => c = cond

\* C4 as stated: a batch with entities and orientation flags, in the main
\* or the boundary component, makes FmsMeshToMesh return nonzero and
\* expose no mesh.
C4_OrientationFlagsRejected ==
  /\ Returned
  /\ main_comp # NULL
  /\ \/ OrientedBatches(Comp(main_comp)) # {}
     \/ bdr_comp # NULL /\ OrientedBatches(Comp(bdr_comp)) # {}
  => ret # 0 /\ mfem_mesh = "unwritten"

\* The vertices of the target edge or face a lookup of type et returned.
TargetVerts(et, id) ==
  IF et = FMS_EDGE THEN mesh.edges[id + 1] ELSE mesh.faces[id + 1]

\* The target edges or faces with the vertex set (and arity) of tuple tv.
SameVertexSet(et, tv) ==
  IF et = FMS_EDGE
  THEN {i \in DOMAIN mesh.edges : Range(mesh.edges[i]) = Range(tv)}
  ELSE {i \in DOMAIN mesh.faces :
          /\ Range(mesh.faces[i]) = Range(tv)
          /\ Len(mesh.faces[i]) = Len(tv)}

\* C5 as stated: a lookup of the scatter returns index i only if target
\* entity i has exactly the vertex set and arity of the source tuple, and
\* a tuple no target entity matches is not found and fails with 17/18/19.
C5_LookupExact ==
  \A k \in DOMAIN lookups :
    /\ lookups[k].id >= 0 =>
         (lookups[k].id + 1) \in SameVertexSet(lookups[k].et, lookups[k].verts)
    /\ SameVertexSet(lookups[k].et, lookups[k].verts) = {} =>
         /\ lookups[k].id < 0
         /\ err = OrphanCode(lookups[k].et)

\* Component j of DOF g of the source coordinate field, by its layout.
SourceValue(g, j) ==
  CoordsData(Field(coords),
             IF Field(coords).layout = "FMS_BY_VDIM"
             THEN g * Field(coords).space_dim + j
             ELSE g + j * Field(coords).num_dofs)

\* Component j of DOF g of the nodes of the target mesh.
TargetValue(g, j) == nodes[DofToVDof(mesh, g, j) + 1]

\* The number of vertices of the parts before part p of the main component.
VertsBefore(p) ==
  SumSeq([q \in 1 .. (p - 1) |-> NumEnts(MainParts[q][FMS_VERTEX])])

\* C6: for an order-1 field, after a successful conversion, the node value
\* of every vertex g (numbered by part, then by position in the part) and
\* component j is the source value of vertex g, component j, in both
\* layouts and for any number of parts.
C6_VertexCopy ==
  Returned /\ ret = 0 /\ Field(coords).order = 1 =>
    \A p \in DOMAIN MainParts :
      \A v \in 0 .. (NumEnts(MainParts[p][FMS_VERTEX]) - 1) :
        \A j \in 0 .. (Field(coords).space_dim - 1) :
          TargetValue(VertsBefore(p) + v, j) = SourceValue(VertsBefore(p) + v, j)

\* A successful order-1 conversion of two parts in the block-by-component
\* layout.
C6_Witness ==
  /\ pc = "returned"
  /\ ret = 0
  /\ Field(coords).order = 1
  /\ Field(coords).layout = "FMS_BY_NODES"
  /\ Len(MainParts) = 2
  /\ VertsBefore(2) > 0

\* The tags attached to component c.
TagsOn(c) == {k \in DOMAIN fms.tags : fms.tags[k].comp = c}

\* C7: with no tag on the main component every element added has attribute
\* 1, and with no tag on the boundary component every boundary element
\* added has attribute 1, whatever tags other components carry.
C7_DefaultAttribute ==
  /\ main_comp # NULL /\ TagsOn(main_comp) = {} =>
       \A e \in DOMAIN mesh.elements : mesh.elements[e].attr = 1
  /\ pc \notin {"find_main", "setup"} /\ TagsOn(bdr_comp) = {} =>
       \A e \in DOMAIN mesh.boundary : mesh.boundary[e].attr = 1

\* An untagged main component next to a tagged boundary component: the
\* elements have attribute 1 while the boundary elements take the tag's.
C7_Witness ==
  /\ pc = "returned"
  /\ ret = 0
  /\ TagsOn(main_comp) = {}
  /\ Len(fms.tags) = 2
  /\ TagsOn(bdr_comp) # {}
  /\ GetNE(mesh) >= 2
  /\ \E e \in DOMAIN mesh.boundary : mesh.boundary[e].attr # 1

\* The positions (part, entity) of the source edges with the vertex set of
\* target edge i.
SourceEdgesOf(i) ==
  {pk \in (DOMAIN MainParts) \X (1 .. Len(mesh.edges)) :
     /\ pk[2] <= NumEnts(MainParts[pk[1]][FMS_EDGE])
     /\ {x + VertsBefore(pk[1]) :
           x \in Range(EntsVerts(MainParts[pk[1]][FMS_EDGE])[pk[2]])}
        = Range(mesh.edges[i])}

\* The source DOF of the k-th edge of part p of an order-2 quad mesh: the
\* DOFs of the parts before, the vertices of the part, then its edges.
SourceEdgeDof(p, k) ==
  SumSeq([q \in 1 .. (p - 1) |->
            NumEnts(MainParts[q][FMS_VERTEX]) + NumEnts(MainParts[q][FMS_EDGE])
            + NumEnts(MainParts[q][FMS_QUADRILATERAL])])
  + NumEnts(MainParts[p][FMS_VERTEX]) + (k - 1)

WithCoords == {i \in DOMAIN fms.comps : fms.comps[i].coords # NULL}

\* C9: the main component is the component of smallest index among those
\* with a coordinate field and coords is its field; when no component has
\* one, FmsMeshToMesh returns 1 (NoMainComponent) and no mesh was built.
C9_MainComponent ==
  pc # "find_main" =>
    IF WithCoords # {}
    THEN /\ main_comp = SetMin(WithCoords) - 1
         /\ coords = fms.comps[SetMin(WithCoords)].coords
    ELSE /\ Returned
         /\ ret = 1
         /\ cond = "NoMainComponent"
         /\ mesh.state = "null"
         /\ mfem_mesh = "unwritten"

\* Two components with coordinates behind one without: the first of the
\* two is the main component of a successful conversion.
C9_Witness ==
  /\ pc = "returned"
  /\ ret = 0
  /\ Cardinality(WithCoords) >= 2
  /\ main_comp >= 1
  /\ fms.comps[1].coords = NULL

\* The keys of the target edges and faces, in index order.
EdgeKeys ==
  [i \in DOMAIN mesh.edges |-> Hashed2Key(mesh.edges[i][1], mesh.edges[i][2])]

FaceKeys ==
  [i \in DOMAIN mesh.faces |->
     Hashed4Key(PaddedFace(mesh.faces[i])[1], PaddedFace(mesh.faces[i])[2],
                PaddedFace(mesh.faces[i])[3], PaddedFace(mesh.faces[i])[4])]

Distinct(keys) == \A i, j \in DOMAIN keys : keys[i] = keys[j] => i = j

\* C10: a run is past the construction of a table of the index only if
\* the keys of the target edges (faces) are pairwise different, and then
\* the table maps the key of every target edge (face) i to i; codes 13 and
\* 14 are returned for TopologyIndexMismatch, and only when a table is
\* built from keys that are not pairwise different.
C10_IndexReproducesIndices ==
  /\ pc \in {"face_index", "scatter"} /\ EdgeIndexBuilt =>
       /\ Distinct(EdgeKeys)
       /\ Len(mfem_edge) = Len(mesh.edges)
       /\ \A i \in DOMAIN mesh.edges : FindKey(mfem_edge, EdgeKeys[i]) = i - 1
  /\ pc = "scatter" /\ FaceIndexBuilt =>
       /\ Distinct(FaceKeys)
       /\ Len(mfem_face) = Len(mesh.faces)
       /\ \A i \in DOMAIN mesh.faces : FindKey(mfem_face, FaceKeys[i]) = i - 1
  /\ err = 13 => cond = "TopologyIndexMismatch" /\ ~Distinct(EdgeKeys)
  /\ err = 14 => cond = "TopologyIndexMismatch" /\ ~Distinct(FaceKeys)
  /\ cond = "TopologyIndexMismatch" => err \in {13, 14}

\* Past the construction of both tables of a hexahedron: twelve edges and
\* six faces indexed.
C10_Witness ==
  /\ pc = "scatter"
  /\ EdgeIndexBuilt
  /\ FaceIndexBuilt
  /\ Len(mfem_edge) >= 12
  /\ Len(mfem_face) >= 6

(***************************************************************************)
(* Edges as elements.                                                      *)
(***************************************************************************)
\* The tag the converter takes for component c: the first one attached to it.
FirstTagOn(c) == IF TagsOn(c) = {} THEN NULL ELSE SetMin(TagsOn(c)) - 1

\* The tags taken for the main and the boundary component have an attribute
\* type the converter reads.
TagTypesOk ==
  /\ FirstTagOn(main_comp) # NULL => AttrTypeOk(FirstTagOn(main_comp))
  /\ (bdr_comp # NULL /\ FirstTagOn(bdr_comp) # NULL)
       => AttrTypeOk(FirstTagOn(bdr_comp))

\* The main component is of dimension 1 and a part of it holds edges, with
\* a valid id type and without orientation flags.
EdgeElements ==
  /\ main_comp # NULL
  /\ Comp(main_comp).dim = 1
  /\ \E p \in DOMAIN MainParts :
       /\ NumEnts(MainParts[p][FMS_EDGE]) > 0
       /\ IdTypeOk(MainParts[p][FMS_EDGE])
       /\ ~MainParts[p][FMS_EDGE].ori

\* C11 as stated: a main component of dimension 1 that holds valid edges
\* makes the conversion return code 5 and leave the output unwritten,
\* whatever else the source mesh holds.
C11_EdgeAsElement ==
  (Returned /\ EdgeElements) => (ret = 5 /\ mfem_mesh = "unwritten")

\* C11, amended: a main component of dimension 1 that holds valid edges,
\* the tags taken for the main and the boundary component being of a
\* supported attribute type, makes the conversion return code 5 and leave
\* the output unwritten, whatever the coordinate field is.
C11_EdgeAsElementAfterTags ==
  (Returned /\ EdgeElements /\ TagTypesOk)
    => (ret = 5 /\ mfem_mesh = "unwritten" /\ mesh.state = "deleted")

\* Code 5 returned for a source mesh whose coordinate field is not one the
\* converter would take.
C11_Witness ==
  /\ Returned
  /\ EdgeElements
  /\ TagTypesOk
  /\ ret = 5
  /\ FieldCheck(Field(coords)).err # 0

(***************************************************************************)
(* The code of a coordinate field that is not continuous.                  *)
(***************************************************************************)
\* The batches of elements of the main component are all of a valid id type,
\* without orientation flags, and no edges.
ElementBatchesOk ==
  \A p \in DOMAIN MainParts :
    \A t \in EntityTypes :
      (FmsEntityDim(t) = Comp(main_comp).dim /\ NumEnts(MainParts[p][t]) > 0)
        => /\ IdTypeOk(MainParts[p][t])
           /\ ~MainParts[p][t].ori
           /\ t # FMS_EDGE

\* The batches of boundary elements are all of a valid id type and without
\* orientation flags.
BdrBatchesOk ==
  bdr_comp # NULL
    => \A p \in DOMAIN Comp(bdr_comp).parts :
         \A t \in EntityTypes :
           (/\ FmsEntityDim(t) = Comp(main_comp).dim - 1
            /\ NumEnts(Comp(bdr_comp).parts[p][t]) > 0)
             => /\ IdTypeOk(Comp(bdr_comp).parts[p][t])
                /\ ~Comp(bdr_comp).parts[p][t].ori

\* Every check before those of the field descriptor passes.
ChecksBeforeFieldPass ==
  /\ main_comp # NULL
  /\ TagTypesOk
  /\ ElementBatchesOk
  /\ BdrBatchesOk
  /\ Field(coords).data_type = "FMS_DOUBLE"
  /\ Field(coords).fd_type = "FMS_FIXED_ORDER"

Discontinuous ==
  ChecksBeforeFieldPass /\ Field(coords).field_type # "FMS_CONTINUOUS"

\* The code returned for a continuous field whose basis is not closed.
BasisUnsupportedCode ==
  FieldCheck([Field(coords) EXCEPT !.field_type = "FMS_CONTINUOUS",
                                   !.basis_type = "FMS_NODAL_GAUSS_OPEN"]).err

\* C12 as stated: a coordinate field that is not continuous, every earlier
\* check passing, makes the conversion return the code it returns for a
\* continuous field whose basis is not closed, and leave the output
\* unwritten.
C12_DiscontinuousIsBasisCode ==
  (Returned /\ Discontinuous)
    => (ret = BasisUnsupportedCode /\ mfem_mesh = "unwritten")

\* C12, amended: a coordinate field that is not continuous, every earlier
\* check passing, makes the conversion return code 10, which is not the code
\* of a continuous field whose basis is not closed, and leave the output
\* unwritten.
C12_DiscontinuousOwnCode ==
  (Returned /\ Discontinuous)
    => /\ ret = 10
       /\ ret # BasisUnsupportedCode
       /\ mfem_mesh = "unwritten"
       /\ mesh.state = "deleted"

\* Code 10 returned for a field that is not continuous and whose basis is
\* not closed either.
C12_Witness ==
  /\ Returned
  /\ Discontinuous
  /\ Field(coords).basis_type # "FMS_NODAL_GAUSS_CLOSED"
  /\ ret = 10

(***************************************************************************)
(* The vertex indices of the elements of the target mesh.                  *)
(***************************************************************************)
RECURSIVE ConcatAll(_)
ConcatAll(ss) == IF ss = <<>> THEN <<>> ELSE Head(ss) \o ConcatAll(Tail(ss))

\* The source entities of dimension d of a component, by part, then by
\* entity type, then by position: of each its part, its type, its position
\* and its part-local vertex tuple.
SourceEnts(parts, d) ==
  ConcatAll(
    [p \in 1 .. Len(parts) |->
       ConcatAll(
         [ti \in 1 .. FMS_NUM_ENTITY_TYPES |->
            IF FmsEntityDim(ti - 1) = d
            THEN [i \in 1 .. NumEnts(parts[p][ti - 1]) |->
                    [part |-> p, et |-> ti - 1, pos |-> i - 1,
                     verts |-> EntsVerts(parts[p][ti - 1])[i]]]
            ELSE <<>>])])

\* The number of vertices of the parts before part p of a component.
VertsBeforeIn(parts, p) ==
  SumSeq([q \in 1 .. (p - 1) |-> NumEnts(parts[q][FMS_VERTEX])])

\* The vertex tuple of a source entity in global indices.
GlobalVerts(parts, src) ==
  [c \in DOMAIN src.verts |-> src.verts[c] + VertsBeforeIn(parts, src.part)]

\* C13: every element and every boundary element of the target mesh has
\* the vertex indices of its source entity moved by the number of vertices
\* of the parts before the entity's part, for any number of parts.
C13_GlobalVertexIndices ==
  mesh.state = "live" =>
    /\ \A e \in DOMAIN mesh.elements :
         mesh.elements[e].v
           = GlobalVerts(MainParts, SourceEnts(MainParts, dim)[e])
    /\ \A e \in DOMAIN mesh.boundary :
         mesh.boundary[e].v
           = GlobalVerts(Comp(bdr_comp).parts,
                         SourceEnts(Comp(bdr_comp).parts, dim - 1)[e])

(***************************************************************************)
(* The vertex offset of the lookups of the scatter.                        *)
(***************************************************************************)
\* C14: whenever the scatter looks up an edge or a face of part p, the
\* offset it has added to the entity's part-local vertex indices is the
\* number of vertices of all parts before p, also when p or an earlier part
\* has no vertices.
C14_LookupOffset ==
  main_comp # NULL =>
    \A k \in DOMAIN lookups : lookups[k].off = VertsBefore(lookups[k].part)

(***************************************************************************)
(* The counters of the scatter and the interior DOFs of the elements.      *)
(***************************************************************************)
\* The number of entities of dimension d in the batches of part p (from 1)
\* of the main component whose entity type is below t.
EntsOfDimBelow(p, t, d) ==
  SumSeq([ti \in 1 .. t |->
            IF FmsEntityDim(ti - 1) = d THEN NumEnts(MainParts[p][ti - 1])
            ELSE 0])

\* The number of entities of dimension d in the batches the scatter is
\* through: all of the parts before part_id, and of part_id those of an
\* entity type below ent_type.
EntsProcessed(d) ==
  SumSeq([p \in 1 .. part_id |->
            EntsOfDimBelow(p, FMS_NUM_ENTITY_TYPES, d)])
  + (IF part_id < n_main_parts THEN EntsOfDimBelow(part_id + 1, ent_type, d)
     ELSE 0)

\* The DOFs of the source field in the batches of part p whose entity type
\* is below t.
DofsBelow(p, t) ==
  SumSeq([ti \in 1 .. t |->
            NumEnts(MainParts[p][ti - 1])
              * DofForGeometry(ti - 1, Field(coords).order)])

\* The first DOF of a source entity in the source field: the DOFs run by
\* part, then by entity type, then by position.
SourceDofStart(src) ==
  SumSeq([p \in 1 .. (src.part - 1) |-> DofsBelow(p, FMS_NUM_ENTITY_TYPES)])
  + DofsBelow(src.part, src.et)
  + src.pos * DofForGeometry(src.et, Field(coords).order)

\* C15: between the batches of the scatter the counter of dimension d is
\* the number of source entities of dimension d in the batches it is
\* through, copied or passed over; and after a successful conversion the
\* e-th source entity of the top dimension has the vertices of target
\* element e and its DOFs, in source order, are the interior DOFs of target
\* element e.
C15_CountersAndElements ==
  /\ pc = "scatter" => \A d \in 0 .. 3 : mfem_ent_cnt[d] = EntsProcessed(d)
  /\ (Returned /\ ret = 0) =>
       /\ GetNE(mesh) = Len(SourceEnts(MainParts, dim))
       /\ \A e \in DOMAIN mesh.elements :
            /\ mesh.elements[e].v = SourceEnts(MainParts, dim)[e].verts
            /\ Len(GetElementInteriorDofs(mesh, e - 1))
                 = DofForGeometry(SourceEnts(MainParts, dim)[e].et,
                                  Field(coords).order)
            /\ \A i \in DOMAIN GetElementInteriorDofs(mesh, e - 1) :
                 \A j \in 0 .. (space_dim - 1) :
                   TargetValue(GetElementInteriorDofs(mesh, e - 1)[i], j)
                     = SourceValue(
                         SourceDofStart(SourceEnts(MainParts, dim)[e])
                           + i - 1, j)

\* A successful conversion of two parts whose elements have interior DOFs,
\* the second part's after a batch of edges that was looked up.
C15_Witness ==
  /\ Returned
  /\ ret = 0
  /\ n_main_parts = 2
  /\ GetNE(mesh) = 2
  /\ Len(GetElementInteriorDofs(mesh, 1)) > 0
  /\ mfem_ent_cnt[dim] = 2
  /\ mfem_ent_cnt[1] = 5

\* The scatter between two batches, the batch before passed over for having
\* no DOFs and counted.
C15_WitnessSkipped ==
  /\ pc = "scatter"
  /\ part_id < n_main_parts
  /\ ent_type = FMS_TRIANGLE
  /\ NumEnts(MainParts[part_id + 1][FMS_EDGE]) > 0
  /\ ent_dofs(FMS_EDGE) = 0
  /\ mfem_ent_cnt[1] > 0

(***************************************************************************)
(* The conversion stops at the first check that fails.                     *)
(***************************************************************************)
\* A failure code is set only on the way out, and the code returned is
\* the one that was set.
FailureLeaves ==
  /\ err # 0 => pc \in {"func_exit", "returned", "done"}
  /\ (Returned /\ err # 0) => ret = err

\* The code returned is that of the first check that fails: no check of an
\* earlier stage of the conversion fails on the source mesh.
NoEarlierFailure ==
  (Returned /\ main_comp # NULL) =>
    /\ ret \in ({0} \cup (2 .. 19))
         => (FirstTagOn(main_comp) # NULL
               => AttrTypeOk(FirstTagOn(main_comp)))
    /\ ret \in ({0} \cup (3 .. 19)) => TagTypesOk
    /\ ret \in ({0} \cup (6 .. 19)) => ElementBatchesOk
    /\ ret \in ({0} \cup (8 .. 19)) => (n_bdr_elem > 0 => BdrBatchesOk)
    /\ ret \in ({0} \cup (9 .. 19)) => Field(coords).data_type = "FMS_DOUBLE"
    /\ ret \in ({0} \cup (10 .. 19))
         => Field(coords).fd_type = "FMS_FIXED_ORDER"
    /\ ret \in ({0} \cup (11 .. 19))
         => Field(coords).field_type = "FMS_CONTINUOUS"
    /\ ret \in ({0} \cup (12 .. 19)) => FieldCheck(Field(coords)).err = 0

\* A step taken with a failure code set: nothing is added to the target
\* mesh, no node is written, nothing is scattered, the code stays; the step
\* from func_exit deletes the target mesh and returns the code.
AfterFailure ==
  err # 0 =>
    /\ err' = err
    /\ mesh'.elements = mesh.elements
    /\ mesh'.boundary = mesh.boundary
    /\ mesh'.NumOfVertices = mesh.NumOfVertices
    /\ nodes' = nodes
    /\ lookups' = lookups
    /\ fms_dof_offset' = fms_dof_offset
    /\ mfem_ent_cnt' = mfem_ent_cnt
    /\ mfem_mesh' = "unwritten"
    /\ pc = "func_exit" => (ret' = err /\ mesh'.state = "deleted")
    /\ pc # "func_exit" => (ret' = ret /\ mesh' = mesh)

\* C16: the conversion stops at the first check that fails, in the order of
\* execution: once a failure code is set no element, boundary element or
\* vertex is added, no node is written and nothing is scattered; the target
\* mesh is deleted and that code is returned, no later check replacing it.
C16_AbortAtFirstFailure ==
  /\ [](FailureLeaves /\ NoEarlierFailure)
  /\ [][AfterFailure]_vars

\* An orientation flag on a batch of elements reported for a source mesh
\* whose coordinate field fails a later check too, the elements of the
\* batches before it added and the target mesh deleted.
C16_Witness ==
  /\ Returned
  /\ ret \in 3 .. 7
  /\ err = ret
  /\ FieldCheck(Field(coords)).err # 0
  /\ mesh.state = "deleted"
  /\ mfem_mesh = "unwritten"

\* A failure in the scatter after nodes were written: the target mesh is
\* deleted and the output unwritten.
C16_WitnessScatter ==
  /\ Returned
  /\ ret \in 17 .. 19
  /\ fms_dof_offset > 0
  /\ mesh.state = "deleted"

(***************************************************************************)
(* The rotation search of the faces.                                       *)
(***************************************************************************)
\* C17: for every triangle or quad the scatter has found in the face
\* index, the rotation search ends at a rotation k below the number of
\* vertices of the face, inside the face's own vertex tuple, and the
\* orientation code is 2k when the source vertex after position k is the
\* target face's second vertex and 2k + 1 otherwise, so within 0..5 for a
\* triangle and 0..7 for a quad.
C17_RotationInRange ==
  \A n \in DOMAIN lookups :
    (lookups[n].et \in {FMS_TRIANGLE, FMS_QUADRILATERAL} /\ lookups[n].id >= 0)
      => /\ lookups[n].rot \in 0 .. (FmsEntityNumVerts(lookups[n].et) - 1)
         /\ lookups[n].ori
              = FaceOri(lookups[n].verts, FmsEntityNumVerts(lookups[n].et),
                        GetFaceVertices(mesh, lookups[n].id), lookups[n].rot)
         /\ lookups[n].ori
              \in 0 .. (2 * FmsEntityNumVerts(lookups[n].et) - 1)

====
